---- MODULE Spec2Model ----
(***************************************************************************)
(* Model of the image processing application: the controller               *)
(* ImageProcessorApp (main.py), the ImageProcessor mock (processor.py),    *)
(* the CSVExporter (exporter.py) and the part of ImageProcessorUI (ui.py)  *)
(* the controller drives: the three buttons, the progress bar, the status  *)
(* label and the message boxes.                                            *)
(*                                                                         *)
(* Tk is single threaded: a handler runs to completion before the next     *)
(* event is dispatched.  handle_process_images is split at its loop so     *)
(* that the states inside a run are visible; while pc = "running" no other *)
(* handler can start.  The handlers are modelled as callable whatever the  *)
(* state of their button, since they are ordinary public methods and each  *)
(* carries its own guard clause.                                           *)
(***************************************************************************)
EXTENDS Integers, Sequences, FiniteSets, TLC

VARIABLES
    selected_files,   \* ImageProcessorApp.selected_files
    processed_data,   \* ImageProcessorApp.processed_data
    btn,              \* state of select_btn / process_btn / export_btn (TRUE = NORMAL)
    progress_max,     \* progress_bar['maximum']
    progress_value,   \* progress_bar['value']
    status,           \* text of status_label
    pc,               \* position of handle_process_images: "idle" or "running"
    idx,              \* number of loop iterations of the current run already finished
    fs,               \* the candidate paths that are regular files right now
    csvfile,          \* content of the writable export destination
    op,               \* the operation that made the latest step
    msgs,             \* message boxes shown by the latest handler invocation
    calls,            \* processor / exporter / dialog / open() calls of the latest handler invocation
    progress_calls,   \* arguments of update_progress in the latest run
    ret               \* value returned (or exception raised) by the latest direct exporter call

vars == <<selected_files, processed_data, btn, progress_max, progress_value,
          status, pc, idx, fs, csvfile, op, msgs, calls, progress_calls, ret>>

(***************************************************************************)
(* Bounds                                                                  *)
(***************************************************************************)
MaxFiles == 3      \* longest list the file dialog returns
MaxRecs == 2       \* longest record list handed to the exporter directly

(***************************************************************************)
(* Python values, dicts and paths                                          *)
(***************************************************************************)
PyInt(i) == [t |-> "int", n |-> i, s |-> ""]
PyStrV(str) == [t |-> "str", n |-> 0, s |-> str]
PyFloat(h) == [t |-> "float", n |-> h, s |-> ""]    \* n is the value in hundredths

Digit == <<"0", "1", "2", "3", "4", "5", "6", "7", "8", "9">>

RECURSIVE IntToStr(_)
IntToStr(i) == IF i < 10 THEN Digit[i + 1]
               ELSE IntToStr(i \div 10) \o Digit[(i % 10) + 1]

\* repr of a non-negative float with at most two decimals
FloatToStr(h) ==
    IntToStr(h \div 100) \o "." \o
    (IF h % 10 = 0 THEN Digit[((h % 100) \div 10) + 1]
     ELSE Digit[((h % 100) \div 10) + 1] \o Digit[(h % 10) + 1])

\* str(value), which the csv writer applies to every non-string field
PyStr(v) == CASE v.t = "str" -> v.s
              [] v.t = "int" -> IntToStr(v.n)
              [] v.t = "float" -> FloatToStr(v.n)

\* round(file_size / 1024, 2), in hundredths, ties to even
RoundKb(size) ==
    LET q == (size * 100) \div 1024
        r == (size * 100) % 1024
    IN  IF r > 512 \/ (r = 512 /\ q % 2 = 1) THEN q + 1 ELSE q

\* a dict is the insertion ordered sequence of its (key, value) items;
\* dict = FALSE stands for an element that is no mapping
Dict(items) == [dict |-> TRUE, items |-> items]
NotADict == [dict |-> FALSE, items |-> <<>>]

Keys(d) == [i \in 1..Len(d.items) |-> d.items[i][1]]
KeySet(d) == {d.items[i][1] : i \in 1..Len(d.items)}
HasKey(d, k) == k \in KeySet(d)
Get(d, k) == d.items[CHOOSE i \in 1..Len(d.items) : d.items[i][1] = k][2]

Path(dir, name, ext) == [dir |-> dir, name |-> name, ext |-> ext]
PathStr(p) == p.dir \o p.name \o p.ext
basename(p) == p.name \o p.ext
splitext_ext(p) == p.ext
lower(str) == CASE str = ".PNG" -> ".png"
                [] str = ".JPG" -> ".jpg"
                [] str = ".JPEG" -> ".jpeg"
                [] str = ".TXT" -> ".txt"
                [] OTHER -> str

Paths == {Path("/img/", "a", ".png"), Path("/img/", "b", ".JPG"), Path("/doc/", "c", ".txt")}
getsize(p) == CASE p.name = "a" -> 2048
                [] p.name = "b" -> 1536
                [] OTHER -> 10
Timestamps == {"2024-01-01 10:00:00", "2024-01-01 10:00:01"}

RECURSIVE SeqsUpTo(_, _)
SeqsUpTo(S, n) == IF n = 0 THEN {<<>>}
                  ELSE LET R == SeqsUpTo(S, n - 1)
                       IN  R \cup {Append(q, e) : q \in {r \in R : Len(r) = n - 1}, e \in S}

(***************************************************************************)
(* processor.py                                                            *)
(***************************************************************************)
valid_extensions == {".png", ".jpg", ".jpeg"}

validate_image_file(file_path, fsnow) ==
    lower(splitext_ext(file_path)) \in valid_extensions /\ file_path \in fsnow

\* os.path.getsize raises OSError for a path that is no file any more
process_image_raises(file_path, fsnow) == file_path \notin fsnow

process_image(file_path, ts) ==
    Dict(<< <<"filename", PyStrV(basename(file_path))>>,
            <<"file_path", PyStrV(PathStr(file_path))>>,
            <<"file_size_kb", PyFloat(RoundKb(getsize(file_path)))>>,
            <<"processed_timestamp", PyStrV(ts)>>,
            <<"mock_width", PyInt(1920)>>,
            <<"mock_height", PyInt(1080)>>,
            <<"mock_detected_objects", PyStrV("person, car, tree")>>,
            <<"mock_confidence_score", PyFloat(95)>> >>)

(***************************************************************************)
(* exporter.py                                                             *)
(***************************************************************************)
\* variant: the key sets are not compared
validate_data_NoKeyCheck(data) ==
    IF data = <<>> THEN FALSE
    ELSE IF \E i \in 1..Len(data) : ~data[i].dict THEN FALSE
    ELSE TRUE

\* variant: the keys are compared as lists
validate_data_OrderSensitive(data) ==
    IF data = <<>> THEN FALSE
    ELSE IF \E i \in 1..Len(data) : ~data[i].dict THEN FALSE
    ELSE IF Len(data) > 1
            /\ \E i \in 2..Len(data) : Keys(data[i]) # Keys(data[1]) THEN FALSE
    ELSE TRUE

validate_data(data) ==
    IF data = <<>> THEN FALSE
    ELSE IF \E i \in 1..Len(data) : ~data[i].dict THEN FALSE
    ELSE IF Len(data) > 1
            /\ \E i \in 2..Len(data) : KeySet(data[i]) # KeySet(data[1]) THEN FALSE
    ELSE TRUE

\* variant: the values are written in the row's own key order
DictToList_Positional(d, fieldnames) ==
    [i \in 1..Len(fieldnames) |->
        IF i <= Len(d.items) THEN PyStr(d.items[i][2]) ELSE ""]

\* csv.DictWriter._dict_to_list: the values in fieldnames order, restval ''
\* for a missing key, str() applied by the writer
DictToList(d, fieldnames) ==
    [i \in 1..Len(fieldnames) |->
        IF HasKey(d, fieldnames[i]) THEN PyStr(Get(d, fieldnames[i])) ELSE ""]

\* the exception _dict_to_list raises on a row, "" if none
RowError(d, fieldnames) ==
    IF ~d.dict THEN "AttributeError"
    ELSE IF \E k \in KeySet(d) : \A i \in 1..Len(fieldnames) : fieldnames[i] # k
         THEN "ValueError"
    ELSE ""

NoFile == [exists |-> FALSE, rows |-> <<>>]
FileOf(rows) == [exists |-> TRUE, rows |-> rows]

\* export_to_csv(data, file_path): the exception raised ("" if none), whether
\* open() was called, and the destination file afterwards
export_to_csv(data, writable, old) ==
    IF data = <<>> THEN [exc |-> "ValueError", opened |-> FALSE, file |-> old]
    ELSE IF ~writable THEN [exc |-> "OSError", opened |-> TRUE, file |-> old]
    ELSE IF ~data[1].dict
         THEN [exc |-> "AttributeError", opened |-> TRUE, file |-> FileOf(<<>>)]
    ELSE LET fieldnames == Keys(data[1])
             bad == {i \in 1..Len(data) : RowError(data[i], fieldnames) # ""}
             firstBad == IF bad = {} THEN Len(data) + 1
                         ELSE CHOOSE i \in bad : \A j \in bad : i <= j
             rows == <<fieldnames>> \o
                     [i \in 1..(firstBad - 1) |-> DictToList(data[i], fieldnames)]
         IN  [exc |-> IF bad = {} THEN "" ELSE RowError(data[firstBad], fieldnames),
              opened |-> TRUE,
              file |-> FileOf(rows)]

(***************************************************************************)
(* ui.py                                                                   *)
(***************************************************************************)
Box(kind, title, n, name) == [kind |-> kind, title |-> title, n |-> n, name |-> name]
Status(msg, n, name) == [msg |-> msg, n |-> n, name |-> name]
\* a logged call: the function, the paths passed to or returned by it, and
\* whether it returned normally (for a dialog: whether it returned something)
Call(fn, paths, ok) == [fn |-> fn, paths |-> paths, ok |-> ok]

enable_button(b, button_name) ==
    IF button_name \in {"select", "process", "export"}
    THEN [b EXCEPT ![button_name] = TRUE] ELSE b

disable_button(b, button_name) ==
    IF button_name \in {"select", "process", "export"}
    THEN [b EXCEPT ![button_name] = FALSE] ELSE b

\* what the file dialog and the save dialog can return
NoPath == Path("", "", "")
\* askopenfilenames returns each chosen file once; nothing guarantees that
\* the files still exist when the handler looks at them
FileDialogResults ==
    {q \in SeqsUpTo(Paths, MaxFiles) : \A i, j \in 1..Len(q) : i # j => q[i] # q[j]}
WritableDest == Path("/out/", "processed_images", ".csv")
ReadOnlyDest == Path("/ro/", "processed_images", ".csv")
SaveDialogResults == {NoPath, WritableDest, ReadOnlyDest}

(***************************************************************************)
(* main.py                                                                 *)
(***************************************************************************)
RECURSIVE valid_files(_, _)
valid_files(files, fsnow) ==
    IF files = <<>> THEN <<>>
    ELSE IF validate_image_file(Head(files), fsnow)
         THEN <<Head(files)>> \o valid_files(Tail(files), fsnow)
         ELSE valid_files(Tail(files), fsnow)

Init ==
    /\ selected_files = <<>>
    /\ processed_data = <<>>
    /\ btn = [select |-> TRUE, process |-> FALSE, export |-> FALSE]
    /\ progress_max = 100
    /\ progress_value = 0
    /\ status = Status("Ready", 0, "")
    /\ pc = "idle"
    /\ idx = 0
    /\ fs = Paths
    /\ csvfile = NoFile
    /\ op = "init"
    /\ msgs = <<>>
    /\ calls = <<>>
    /\ progress_calls = <<>>
    /\ ret = [fn |-> "", ok |-> FALSE, exc |-> ""]

\* variant: a new selection is appended to the previous one
handle_select_files_Merge(files) ==
    /\ pc = "idle"
    /\ op' = "select"
    /\ calls' = <<Call("show_file_dialog", files, files # <<>>)>>
    /\ LET valid == valid_files(files, fs)
           skipped == IF files # <<>> /\ Len(valid) # Len(files)
                      THEN <<Box("warning", "Invalid Files", Len(files) - Len(valid), "")>>
                      ELSE <<>>
       IN  IF files # <<>> /\ valid # <<>>
           THEN /\ selected_files' = selected_files \o valid
                /\ btn' = disable_button(enable_button(btn, "process"), "export")
                /\ processed_data' = <<>>
                /\ status' = Status("files selected", Len(valid), "")
                /\ msgs' = skipped
           ELSE /\ msgs' = IF files = <<>> THEN <<>>
                           ELSE skipped \o <<Box("warning", "No Valid Files", 0, "")>>
                /\ UNCHANGED <<selected_files, btn, processed_data, status>>
    /\ UNCHANGED <<progress_max, progress_value, pc, idx, fs, csvfile, progress_calls, ret>>

\* variant: a new selection leaves the export button as it is
handle_select_files_KeepsExport(files) ==
    /\ pc = "idle"
    /\ op' = "select"
    /\ calls' = <<Call("show_file_dialog", files, files # <<>>)>>
    /\ LET valid == valid_files(files, fs)
           skipped == IF files # <<>> /\ Len(valid) # Len(files)
                      THEN <<Box("warning", "Invalid Files", Len(files) - Len(valid), "")>>
                      ELSE <<>>
       IN  IF files # <<>> /\ valid # <<>>
           THEN /\ selected_files' = valid
                /\ btn' = enable_button(btn, "process")
                /\ processed_data' = <<>>
                /\ status' = Status("files selected", Len(valid), "")
                /\ msgs' = skipped
           ELSE /\ msgs' = IF files = <<>> THEN <<>>
                           ELSE skipped \o <<Box("warning", "No Valid Files", 0, "")>>
                /\ UNCHANGED <<selected_files, btn, processed_data, status>>
    /\ UNCHANGED <<progress_max, progress_value, pc, idx, fs, csvfile, progress_calls, ret>>

handle_select_files(files) ==
    /\ pc = "idle"
    /\ op' = "select"
    /\ calls' = <<Call("show_file_dialog", files, files # <<>>)>>
    /\ LET valid == valid_files(files, fs)
           skipped == IF files # <<>> /\ Len(valid) # Len(files)
                      THEN <<Box("warning", "Invalid Files", Len(files) - Len(valid), "")>>
                      ELSE <<>>
       IN  IF files # <<>> /\ valid # <<>>
           THEN /\ selected_files' = valid
                /\ btn' = disable_button(enable_button(btn, "process"), "export")
                /\ processed_data' = <<>>
                /\ status' = Status("files selected", Len(valid), "")
                /\ msgs' = skipped
           ELSE /\ msgs' = IF files = <<>> THEN <<>>
                           ELSE skipped \o <<Box("warning", "No Valid Files", 0, "")>>
                /\ UNCHANGED <<selected_files, btn, processed_data, status>>
    /\ UNCHANGED <<progress_max, progress_value, pc, idx, fs, csvfile, progress_calls, ret>>

\* variant: a run keeps the records of the previous run
ProcessBegin_NoReset ==
    /\ pc = "idle"
    /\ op' = "process"
    /\ calls' = <<>>
    /\ IF selected_files = <<>>
       THEN /\ msgs' = <<Box("warning", "No Files", 0, "")>>
            /\ UNCHANGED <<processed_data, progress_max, progress_value, btn, pc, idx,
                           progress_calls>>
       ELSE /\ msgs' = <<>>
            /\ UNCHANGED processed_data
            /\ progress_max' = Len(selected_files)
            /\ progress_value' = 0
            /\ progress_calls' = <<>>
            /\ btn' = disable_button(disable_button(disable_button(btn, "process"),
                                                    "select"), "export")
            /\ pc' = "running"
            /\ idx' = 0
    /\ UNCHANGED <<selected_files, status, fs, csvfile, ret>>

\* handle_process_images up to the loop (lines 65-80)
ProcessBegin ==
    /\ pc = "idle"
    /\ op' = "process"
    /\ calls' = <<>>
    /\ IF selected_files = <<>>
       THEN /\ msgs' = <<Box("warning", "No Files", 0, "")>>
            /\ UNCHANGED <<processed_data, progress_max, progress_value, btn, pc, idx,
                           progress_calls>>
       ELSE /\ msgs' = <<>>
            /\ processed_data' = <<>>
            /\ progress_max' = Len(selected_files)
            /\ progress_value' = 0
            /\ progress_calls' = <<>>
            /\ btn' = disable_button(disable_button(disable_button(btn, "process"),
                                                    "select"), "export")
            /\ pc' = "running"
            /\ idx' = 0
    /\ UNCHANGED <<selected_files, status, fs, csvfile, ret>>

\* variant: the loop stops at the first item that raises
ProcessItem_BreakOnError ==
    /\ pc = "running"
    /\ idx < Len(selected_files)
    /\ op' = "process"
    /\ LET file_path == selected_files[idx + 1]
           filename == basename(file_path)
       IN  /\ status' = Status("Processing", idx + 1, filename)
           /\ IF process_image_raises(file_path, fs)
              THEN /\ msgs' = Append(msgs, Box("error", "Processing Error", 0, filename))
                   /\ calls' = Append(calls, Call("process_image", <<file_path>>, FALSE))
                   /\ UNCHANGED processed_data
              ELSE /\ \E ts \in Timestamps :
                        processed_data' = Append(processed_data, process_image(file_path, ts))
                   /\ calls' = Append(calls, Call("process_image", <<file_path>>, TRUE))
                   /\ UNCHANGED msgs
           /\ IF process_image_raises(file_path, fs)
              THEN /\ idx' = Len(selected_files)
                   /\ UNCHANGED <<progress_value, progress_calls>>
              ELSE /\ progress_value' = idx + 1
                   /\ progress_calls' = Append(progress_calls, idx + 1)
                   /\ idx' = idx + 1
    /\ UNCHANGED <<selected_files, btn, progress_max, pc, fs, csvfile, ret>>

\* variant: update_progress is called only for an item that succeeded
ProcessItem_ProgressOnSuccessOnly ==
    /\ pc = "running"
    /\ idx < Len(selected_files)
    /\ op' = "process"
    /\ LET file_path == selected_files[idx + 1]
           filename == basename(file_path)
       IN  /\ status' = Status("Processing", idx + 1, filename)
           /\ IF process_image_raises(file_path, fs)
              THEN /\ msgs' = Append(msgs, Box("error", "Processing Error", 0, filename))
                   /\ calls' = Append(calls, Call("process_image", <<file_path>>, FALSE))
                   /\ UNCHANGED processed_data
              ELSE /\ \E ts \in Timestamps :
                        processed_data' = Append(processed_data, process_image(file_path, ts))
                   /\ calls' = Append(calls, Call("process_image", <<file_path>>, TRUE))
                   /\ UNCHANGED msgs
           /\ IF process_image_raises(file_path, fs)
              THEN UNCHANGED <<progress_value, progress_calls>>
              ELSE /\ progress_value' = idx + 1
                   /\ progress_calls' = Append(progress_calls, idx + 1)
           /\ idx' = idx + 1
    /\ UNCHANGED <<selected_files, btn, progress_max, pc, fs, csvfile, ret>>

\* one iteration of the loop (lines 83-96)
ProcessItem ==
    /\ pc = "running"
    /\ idx < Len(selected_files)
    /\ op' = "process"
    /\ LET file_path == selected_files[idx + 1]
           filename == basename(file_path)
       IN  /\ status' = Status("Processing", idx + 1, filename)
           /\ IF process_image_raises(file_path, fs)
              THEN /\ msgs' = Append(msgs, Box("error", "Processing Error", 0, filename))
                   /\ calls' = Append(calls, Call("process_image", <<file_path>>, FALSE))
                   /\ UNCHANGED processed_data
              ELSE /\ \E ts \in Timestamps :
                        processed_data' = Append(processed_data, process_image(file_path, ts))
                   /\ calls' = Append(calls, Call("process_image", <<file_path>>, TRUE))
                   /\ UNCHANGED msgs
           /\ progress_value' = idx + 1
           /\ progress_calls' = Append(progress_calls, idx + 1)
           /\ idx' = idx + 1
    /\ UNCHANGED <<selected_files, btn, progress_max, pc, fs, csvfile, ret>>

\* handle_process_images after the loop (lines 98-108)
ProcessEnd ==
    /\ pc = "running"
    /\ idx = Len(selected_files)
    /\ op' = "process"
    /\ pc' = "idle"
    /\ IF processed_data # <<>>
       THEN /\ btn' = enable_button(enable_button(enable_button(btn, "select"),
                                                  "process"), "export")
            /\ status' = Status("Processing complete", Len(processed_data), "")
            /\ msgs' = Append(msgs, Box("info", "Success", Len(processed_data), ""))
       ELSE /\ btn' = enable_button(enable_button(btn, "select"), "process")
            /\ status' = Status("Processing failed", 0, "")
            /\ UNCHANGED msgs
    /\ UNCHANGED <<selected_files, processed_data, progress_max, progress_value, idx, fs,
                   csvfile, calls, progress_calls, ret>>

\* variant: the handler has no guard for an empty batch
handle_export_csv_NoEmptyGuard(file_path) ==
    /\ pc = "idle"
    /\ op' = "export"
    /\ IF FALSE
       THEN /\ msgs' = <<Box("warning", "No Data", 0, "")>>
            /\ calls' = <<>>
            /\ UNCHANGED <<csvfile, status>>
       ELSE IF ~validate_data(processed_data)
       THEN /\ msgs' = <<Box("error", "Invalid Data", 0, "")>>
            /\ calls' = <<Call("validate_data", <<>>, FALSE)>>
            /\ UNCHANGED <<csvfile, status>>
       ELSE IF file_path = NoPath
       THEN /\ msgs' = <<>>
            /\ calls' = <<Call("validate_data", <<>>, TRUE), Call("show_save_dialog", <<>>, FALSE)>>
            /\ UNCHANGED <<csvfile, status>>
       ELSE LET r == export_to_csv(processed_data, file_path = WritableDest, csvfile)
            IN  /\ calls' = <<Call("validate_data", <<>>, TRUE),
                              Call("show_save_dialog", <<file_path>>, TRUE),
                              Call("export_to_csv", <<file_path>>, r.exc = "")>>
                             \o (IF r.opened
                                 THEN <<Call("open", <<file_path>>, r.exc # "OSError")>>
                                 ELSE <<>>)
                /\ csvfile' = r.file
                /\ IF r.exc = ""
                   THEN /\ status' = Status("Data exported", 0, basename(file_path))
                        /\ msgs' = <<Box("info", "Success", 0, PathStr(file_path))>>
                   ELSE /\ msgs' = <<Box("error", "Export Error", 0, r.exc)>>
                        /\ UNCHANGED status
    /\ UNCHANGED <<selected_files, processed_data, btn, progress_max, progress_value, pc,
                   idx, fs, progress_calls, ret>>

\* variant: a successful export discards the batch
handle_export_csv_ClearsBatch(file_path) ==
    /\ pc = "idle"
    /\ op' = "export"
    /\ IF processed_data = <<>>
       THEN /\ msgs' = <<Box("warning", "No Data", 0, "")>>
            /\ calls' = <<>>
            /\ UNCHANGED <<csvfile, status, processed_data, btn>>
       ELSE IF ~validate_data(processed_data)
       THEN /\ msgs' = <<Box("error", "Invalid Data", 0, "")>>
            /\ calls' = <<Call("validate_data", <<>>, FALSE)>>
            /\ UNCHANGED <<csvfile, status, processed_data, btn>>
       ELSE IF file_path = NoPath
       THEN /\ msgs' = <<>>
            /\ calls' = <<Call("validate_data", <<>>, TRUE), Call("show_save_dialog", <<>>, FALSE)>>
            /\ UNCHANGED <<csvfile, status, processed_data, btn>>
       ELSE LET r == export_to_csv(processed_data, file_path = WritableDest, csvfile)
            IN  /\ calls' = <<Call("validate_data", <<>>, TRUE),
                              Call("show_save_dialog", <<file_path>>, TRUE),
                              Call("export_to_csv", <<file_path>>, r.exc = "")>>
                             \o (IF r.opened
                                 THEN <<Call("open", <<file_path>>, r.exc # "OSError")>>
                                 ELSE <<>>)
                /\ csvfile' = r.file
                /\ IF r.exc = ""
                   THEN /\ status' = Status("Data exported", 0, basename(file_path))
                        /\ processed_data' = <<>>
                        /\ btn' = disable_button(btn, "export")
                        /\ msgs' = <<Box("info", "Success", 0, PathStr(file_path))>>
                   ELSE /\ msgs' = <<Box("error", "Export Error", 0, r.exc)>>
                        /\ UNCHANGED <<status, processed_data, btn>>
    /\ UNCHANGED <<selected_files, progress_max, progress_value, pc,
                   idx, fs, progress_calls, ret>>

handle_export_csv(file_path) ==
    /\ pc = "idle"
    /\ op' = "export"
    /\ IF processed_data = <<>>
       THEN /\ msgs' = <<Box("warning", "No Data", 0, "")>>
            /\ calls' = <<>>
            /\ UNCHANGED <<csvfile, status>>
       ELSE IF ~validate_data(processed_data)
       THEN /\ msgs' = <<Box("error", "Invalid Data", 0, "")>>
            /\ calls' = <<Call("validate_data", <<>>, FALSE)>>
            /\ UNCHANGED <<csvfile, status>>
       ELSE IF file_path = NoPath
       THEN /\ msgs' = <<>>
            /\ calls' = <<Call("validate_data", <<>>, TRUE), Call("show_save_dialog", <<>>, FALSE)>>
            /\ UNCHANGED <<csvfile, status>>
       ELSE LET r == export_to_csv(processed_data, file_path = WritableDest, csvfile)
            IN  /\ calls' = <<Call("validate_data", <<>>, TRUE),
                              Call("show_save_dialog", <<file_path>>, TRUE),
                              Call("export_to_csv", <<file_path>>, r.exc = "")>>
                             \o (IF r.opened
                                 THEN <<Call("open", <<file_path>>, r.exc # "OSError")>>
                                 ELSE <<>>)
                /\ csvfile' = r.file
                /\ IF r.exc = ""
                   THEN /\ status' = Status("Data exported", 0, basename(file_path))
                        /\ msgs' = <<Box("info", "Success", 0, PathStr(file_path))>>
                   ELSE /\ msgs' = <<Box("error", "Export Error", 0, r.exc)>>
                        /\ UNCHANGED status
    /\ UNCHANGED <<selected_files, processed_data, btn, progress_max, progress_value, pc,
                   idx, fs, progress_calls, ret>>

\* the environment creates or deletes a candidate file, at any moment; only
\* files with an accepted extension are followed, since os.path.isfile and
\* os.path.getsize are never reached for the others
FsChange ==
    /\ \E p \in Paths :
          /\ lower(splitext_ext(p)) \in valid_extensions
          /\ fs' = IF p \in fs THEN fs \ {p} ELSE fs \cup {p}
    /\ op' = "env"
    /\ UNCHANGED <<selected_files, processed_data, btn, progress_max, progress_value,
                   status, pc, idx, csvfile, msgs, calls, progress_calls, ret>>

\* validate_data called directly on the record list at hand
CallValidate ==
    /\ pc = "idle"
    /\ op' = "validate_data"
    /\ ret' = [fn |-> "validate_data", ok |-> validate_data(processed_data), exc |-> ""]
    /\ msgs' = <<>>
    /\ calls' = <<>>
    /\ UNCHANGED <<selected_files, processed_data, btn, progress_max, progress_value,
                   status, pc, idx, fs, csvfile, progress_calls>>

\* export_to_csv called directly on the record list at hand
CallExport(file_path) ==
    /\ pc = "idle"
    /\ file_path # NoPath
    /\ op' = "export_to_csv"
    /\ LET r == export_to_csv(processed_data, file_path = WritableDest, csvfile)
       IN  /\ ret' = [fn |-> "export_to_csv", ok |-> r.exc = "", exc |-> r.exc]
           /\ csvfile' = r.file
           /\ calls' = IF r.opened
                       THEN <<Call("open", <<file_path>>, r.exc # "OSError")>>
                       ELSE <<>>
    /\ msgs' = <<>>
    /\ UNCHANGED <<selected_files, processed_data, btn, progress_max, progress_value,
                   status, pc, idx, fs, progress_calls>>

Next ==
    \/ \E files \in FileDialogResults : handle_select_files(files)
    \/ ProcessBegin
    \/ ProcessItem
    \/ ProcessEnd
    \/ \E file_path \in SaveDialogResults : handle_export_csv(file_path)
    \/ FsChange

Spec == Init /\ [][Next]_vars

(***************************************************************************)
(* The exporter and the export handler on arbitrary record lists: the      *)
(* records are those any processing strategy could have left in            *)
(* processed_data, the buttons are as the controller keeps them.           *)
(***************************************************************************)
ExportValues == {<<PyStrV("a.png"), PyInt(1920)>>, <<PyStrV("b.JPG"), PyInt(1080)>>}
ExportElems ==
    {NotADict, Dict(<<>>),
     Dict(<< <<"filename", PyStrV("a.png")>> >>),
     Dict(<< <<"mock_width", PyInt(1920)>> >>)}
    \cup {Dict(<< <<"filename", v[1]>>, <<"mock_width", v[2]>> >>) : v \in ExportValues}
    \cup {Dict(<< <<"mock_width", v[2]>>, <<"filename", v[1]>> >>) : v \in ExportValues}
DataInputs == SeqsUpTo(ExportElems, MaxRecs)

InitExport ==
    /\ processed_data \in DataInputs
    /\ selected_files \in {<<>>, <<Path("/img/", "a", ".png")>>}
    /\ btn = [select |-> TRUE, process |-> selected_files # <<>>,
              export |-> processed_data # <<>>]
    /\ progress_max = 100
    /\ progress_value = 0
    /\ status = Status("Ready", 0, "")
    /\ pc = "idle"
    /\ idx = 0
    /\ fs = Paths
    /\ csvfile = NoFile
    /\ op = "init"
    /\ msgs = <<>>
    /\ calls = <<>>
    /\ progress_calls = <<>>
    /\ ret = [fn |-> "", ok |-> FALSE, exc |-> ""]

NextExport ==
    \/ CallValidate
    \/ \E file_path \in SaveDialogResults : CallExport(file_path)
    \/ \E file_path \in SaveDialogResults : handle_export_csv(file_path)

SpecExport == InitExport /\ [][NextExport]_vars
(***************************************************************************)
(* Properties                                                              *)
(***************************************************************************)
N == Len(selected_files)

\* handle_process_images has just returned from a run over the selection
RunDone == op = "process" /\ pc = "idle" /\ selected_files # <<>>
InRun == pc = "running"

OkCall(c) == c.ok
ErrorBox(b) == b.kind = "error"
WarningBox(b) == b.kind = "warning"
ArgOf(cs) == [i \in 1..Len(cs) |-> PathStr(cs[i].paths[1])]
file_path_of(rec) == Get(rec, "file_path").s

\* C1: one run calls process_image once per selected path, in input order,
\* also after a failure; processed_data is exactly the records of the
\* successful items in input order, and successes + reported failures = N.
C1_OncePerPathInOrder ==
    /\ InRun => Len(calls) = idx /\ idx <= N
    /\ RunDone => Len(calls) = N
    /\ (InRun \/ RunDone) =>
          /\ \A i \in 1..Len(calls) :
                /\ calls[i].fn = "process_image"
                /\ calls[i].paths = <<selected_files[i]>>
          /\ [i \in 1..Len(processed_data) |-> file_path_of(processed_data[i])]
                = ArgOf(SelectSeq(calls, OkCall))
          /\ \A i \in 1..Len(processed_data) :
                \E p \in Paths, ts \in Timestamps : processed_data[i] = process_image(p, ts)
          /\ Len(processed_data) + Len(SelectSeq(msgs, ErrorBox)) = Len(calls)
          /\ Len(SelectSeq(msgs, ErrorBox)) = Len(calls) - Len(SelectSeq(calls, OkCall))
          /\ Len(processed_data) <= N

\* a finished run of two items whose first item failed and whose second succeeded
C1_Witness ==
    /\ RunDone
    /\ N = 2
    /\ Len(calls) = 2
    /\ ~calls[1].ok
    /\ calls[2].ok
    /\ Len(processed_data) = 1

\* C2: a run sets the progress to 0 at its start and then calls
\* update_progress once after every attempt, failed or not, with 1, 2, ..., N;
\* the progress value never decreases within the run.
C2_State ==
    /\ InRun => /\ progress_max = N
                /\ progress_value = idx
                /\ progress_calls = [i \in 1..idx |-> i]
                /\ Len(progress_calls) = Len(calls)
    /\ RunDone => /\ progress_calls = [i \in 1..N |-> i]
                  /\ progress_value = N
                  /\ Len(calls) = N

C2_ProgressOncePerItem ==
    /\ []C2_State
    /\ [][pc = "idle" /\ pc' = "running" => progress_value' = 0 /\ progress_calls' = <<>>]_vars
    /\ [][InRun => progress_value' >= progress_value]_vars

\* a finished run of two items, the first failed, after which the progress calls were 1, 2
C2_Witness ==
    /\ RunDone
    /\ progress_calls = <<1, 2>>
    /\ ~calls[1].ok
    /\ progress_value = 2

IsValidNow(p) == lower(p.ext) \in {".png", ".jpg", ".jpeg"} /\ p \in fs
ValidSubset(files) == SelectSeq(files, IsValidNow)
InSeq(e, q) == \E i \in 1..Len(q) : q[i] = e

\* the candidate paths the file dialog handed to the latest selection
Candidates == calls[1].paths

\* what every call of the selection handler does: files are the candidates,
\* valid the candidates that are valid right now
SelectCommon(files, valid) ==
    /\ valid # <<>> =>
          /\ selected_files' = valid
          /\ processed_data' = <<>>
    /\ valid = <<>> => UNCHANGED <<selected_files, processed_data, btn>>
    /\ Len(valid) # Len(files) =>
          /\ InSeq(Box("warning", "Invalid Files", Len(files) - Len(valid), ""), msgs')
          /\ Len(SelectSeq(msgs', WarningBox)) = IF valid = <<>> THEN 2 ELSE 1

\* C3 as stated: a warning is reported whenever the valid subset is empty.
C3_Original ==
    [][op' = "select" =>
          LET files == Candidates'
              valid == ValidSubset(files)
          IN  /\ SelectCommon(files, valid)
              /\ valid = <<>> => SelectSeq(msgs', WarningBox) # <<>>]_vars

\* C3 (amended): the selection becomes exactly the valid candidates in input
\* order and the batch is cleared when some candidate is valid; otherwise
\* selection, batch and buttons are unchanged, and a warning is reported
\* if there was at least one candidate, nothing at all if the candidate list
\* was empty; the skipped count reported is candidates minus valid.
C3_SelectFilters ==
    [][op' = "select" =>
          LET files == Candidates'
              valid == ValidSubset(files)
          IN  /\ SelectCommon(files, valid)
              /\ valid = <<>> /\ files # <<>> =>
                    InSeq(Box("warning", "No Valid Files", 0, ""), msgs')
              /\ files = <<>> => msgs' = <<>> /\ UNCHANGED status]_vars

\* two of three candidates were valid and replaced the selection, one was
\* reported as skipped, after a batch had been produced and exported
C3_Witness ==
    /\ op = "select"
    /\ Len(Candidates) = 3
    /\ msgs = <<Box("warning", "Invalid Files", 1, "")>>
    /\ Len(selected_files) = 2
    /\ processed_data = <<>>
    /\ csvfile.exists

\* C4: a run starts from an empty batch, so the batch holds records of this
\* run only; after the run, a success means a non-empty batch with export
\* enabled, no success means an empty batch, export disabled and the
\* "Processing failed" status, whatever the batch was before the run.
C4_State ==
    /\ InRun /\ idx = 0 => processed_data = <<>>
    /\ (InRun \/ RunDone) => Len(processed_data) = Len(SelectSeq(calls, OkCall))
    /\ RunDone /\ SelectSeq(calls, OkCall) # <<>> =>
          /\ processed_data # <<>>
          /\ btn.export
          /\ status = Status("Processing complete", Len(processed_data), "")
    /\ RunDone /\ SelectSeq(calls, OkCall) = <<>> =>
          /\ processed_data = <<>>
          /\ ~btn.export
          /\ status = Status("Processing failed", 0, "")

C4_RunResetsBatch ==
    /\ []C4_State
    /\ [][pc = "idle" /\ pc' = "running" => processed_data' = <<>> /\ ~btn'.export]_vars

\* a run in which every item failed, after an earlier batch had been exported
C4_Witness ==
    /\ RunDone
    /\ csvfile.exists
    /\ processed_data = <<>>
    /\ Len(calls) = N
    /\ status.msg = "Processing failed"

\* C5: process with an empty selection and export with an empty batch change
\* nothing, call neither processor nor exporter, and show exactly one warning.
C5_EmptyIsNoOp ==
    [][/\ (op' = "process" /\ pc = "idle" /\ selected_files = <<>>) =>
             /\ UNCHANGED <<selected_files, processed_data, btn, progress_max,
                            progress_value, progress_calls, pc, idx, csvfile, status>>
             /\ calls' = <<>>
             /\ msgs' = <<Box("warning", "No Files", 0, "")>>
       /\ (op' = "export" /\ processed_data = <<>>) =>
             /\ UNCHANGED <<selected_files, processed_data, btn, progress_max,
                            progress_value, progress_calls, pc, idx, csvfile, status>>
             /\ calls' = <<>>
             /\ msgs' = <<Box("warning", "No Data", 0, "")>>]_vars

\* export was asked for after a run in which nothing succeeded
C5_Witness ==
    /\ op = "export"
    /\ msgs = <<Box("warning", "No Data", 0, "")>>
    /\ calls = <<>>
    /\ selected_files # <<>>
    /\ status.msg = "Processing failed"

\* C6: no outcome of the export handler changes the selection, the batch or
\* the buttons.
C6_ExportKeepsState ==
    [][op' = "export" => UNCHANGED <<selected_files, processed_data, btn, pc>>]_vars

\* the batch has been written to the destination and is still there, export still enabled
C6_Witness ==
    /\ op = "export"
    /\ msgs = <<Box("info", "Success", 0, PathStr(WritableDest))>>
    /\ csvfile.exists
    /\ Len(processed_data) = 2
    /\ btn.export

DifferingKeys(data) ==
    \E i, j \in 1..Len(data) :
        data[i].dict /\ data[j].dict /\ KeySet(data[i]) # KeySet(data[j])
NoWrite(cs) == \A i \in 1..Len(cs) : cs[i].fn \notin {"open", "export_to_csv"}

\* C7: the export handler on an empty batch or on records with differing
\* key sets never reaches open(): validate_data returns false for differing
\* key sets and the handler stops; export_to_csv on an empty list raises
\* ValueError before open().  The destination is left as it was.
C7_NoWriteOnInvalid ==
    [][/\ (op' = "export" /\ (processed_data = <<>> \/ DifferingKeys(processed_data))) =>
             /\ csvfile' = csvfile
             /\ NoWrite(calls')
             /\ DifferingKeys(processed_data) =>
                   /\ calls' = <<Call("validate_data", <<>>, FALSE)>>
                   /\ msgs' = <<Box("error", "Invalid Data", 0, "")>>
       /\ (op' = "export_to_csv" /\ processed_data = <<>>) =>
             /\ ret'.exc = "ValueError"
             /\ calls' = <<>>
             /\ csvfile' = csvfile]_vars

\* the handler stopped at validate_data on two mappings with differing key sets
C7_Witness ==
    /\ op = "export"
    /\ Len(processed_data) = 2
    /\ DifferingKeys(processed_data)
    /\ calls = <<Call("validate_data", <<>>, FALSE)>>
    /\ ~csvfile.exists

\* C8: validate_data returns true exactly for a non-empty list of mappings
\* that all have the same key set, compared as sets.
C8_ValidateIff ==
    op = "validate_data" =>
       ret.ok = (/\ processed_data # <<>>
                 /\ \A i \in 1..Len(processed_data) : processed_data[i].dict
                 /\ \A i, j \in 1..Len(processed_data) :
                       KeySet(processed_data[i]) = KeySet(processed_data[j]))

\* validate_data accepted two records that list the same keys in different orders
C8_Witness ==
    /\ op = "validate_data"
    /\ ret.ok
    /\ Len(processed_data) = 2
    /\ Keys(processed_data[1]) # Keys(processed_data[2])

Uniform(data) ==
    /\ data # <<>>
    /\ \A i \in 1..Len(data) : data[i].dict /\ KeySet(data[i]) = KeySet(data[1])
WrittenToDest == op \in {"export", "export_to_csv"}
                 /\ InSeq(Call("open", <<WritableDest>>, TRUE), calls)

\* C9: exporting N records with identical key sets writes N + 1 rows: the
\* keys of the first record in its order, then one row per record in input
\* order whose j-th value is the record's value for the j-th header field.
C9_HeaderAndRows ==
    /\ (op = "export_to_csv" /\ Uniform(processed_data)
          /\ calls = <<Call("open", <<WritableDest>>, TRUE)>>) => ret.ok
    /\ (WrittenToDest /\ Uniform(processed_data)) =>
          /\ csvfile.exists
          /\ Len(csvfile.rows) = Len(processed_data) + 1
          /\ csvfile.rows[1] = Keys(processed_data[1])
          /\ \A i \in 1..Len(processed_data) :
                /\ Len(csvfile.rows[i + 1]) = Len(csvfile.rows[1])
                /\ \A j \in 1..Len(csvfile.rows[1]) :
                      csvfile.rows[i + 1][j]
                         = PyStr(Get(processed_data[i], csvfile.rows[1][j]))

\* two records with two keys each, the second listing them in the other order, were written
C9_Witness ==
    /\ op = "export_to_csv"
    /\ ret.ok
    /\ Len(processed_data) = 2
    /\ Uniform(processed_data)
    /\ Len(Keys(processed_data[1])) = 2
    /\ Keys(processed_data[1]) # Keys(processed_data[2])
    /\ Len(csvfile.rows) = 3

\* C10: outside a run the export button is enabled iff the batch is non-empty
\* and the process button iff the selection is non-empty; inside a run all
\* three buttons are disabled; after a run select and process are enabled.
C10_ButtonsTrackState ==
    /\ pc = "idle" =>
          /\ btn.export <=> processed_data # <<>>
          /\ btn.process <=> selected_files # <<>>
          /\ btn.select
    /\ InRun => ~btn.select /\ ~btn.process /\ ~btn.export
    /\ RunDone => btn.select /\ btn.process
    /\ btn.export => processed_data # <<>>

\* a new selection made after a batch was exported: export is disabled again
C10_Witness ==
    /\ op = "select"
    /\ csvfile.exists
    /\ status.msg = "files selected"
    /\ btn.process
    /\ ~btn.export
    /\ btn.select
====
